---- MODULE Spec2Model ----
(***************************************************************************)
(* Pasture Portal PLS and sowing-rate calculator (PLS_App_V1.py).          *)
(*                                                                         *)
(* The script is a Streamlit form followed by the "Calculate" handler.     *)
(* The state is the value of every input widget, the handler's position    *)
(* (pc) and the handler's locals.  Python float arithmetic is modelled as  *)
(* exact rational arithmetic on normalised fractions [n, d]; rounding of   *)
(* IEEE doubles is not modelled.                                           *)
(***************************************************************************)
EXTENDS Integers, Sequences, FiniteSets, TLC

VARIABLES soil_type, paddock_prep, sowing_method, post_planting, starter_fert,
          planting_conditions, total_target_plants_m2, grass_split,
          species_data, pc, total_score, field_establishment, results,
          df_results, error

vars == <<soil_type, paddock_prep, sowing_method, post_planting, starter_fert,
          planting_conditions, total_target_plants_m2, grass_split,
          species_data, pc, total_score, field_establishment, results,
          df_results, error>>

form == <<soil_type, paddock_prep, sowing_method, post_planting, starter_fert,
          planting_conditions, total_target_plants_m2, grass_split,
          species_data>>

----------------------------------------------------------------------------
(* Bounds of the model *)

\* largest number of species rows the form is asked for
MaxSpecies == 3

\* largest "Total Desired Plants per m2" entered
MaxTarget == 2

\* how far below 115 and above 500 the score argument ranges in SpecFE
ScoreSpan == 300

----------------------------------------------------------------------------
(* Exact rational arithmetic standing for Python floats *)

Abs(x) == IF x < 0 THEN -x ELSE x

RECURSIVE Gcd(_, _)
Gcd(a, b) == IF b = 0 THEN a ELSE Gcd(b, a % b)

\* the fraction n/d (d # 0) in lowest terms with a positive denominator
Rat(n, d) ==
    LET g == Gcd(Abs(n), Abs(d))
        s == IF d < 0 THEN -1 ELSE 1
    IN  [n |-> s * (n \div g), d |-> s * (d \div g)]

Whole(k) == [n |-> k, d |-> 1]

RatAdd(a, b) ==
    LET g == Gcd(a.d, b.d)
        l == (a.d \div g) * b.d
    IN  Rat(a.n * (l \div a.d) + b.n * (l \div b.d), l)

RatNeg(a) == [n |-> -a.n, d |-> a.d]

RatSub(a, b) == RatAdd(a, RatNeg(b))

RatMul(a, b) ==
    LET g1 == Gcd(Abs(a.n), b.d)
        g2 == Gcd(Abs(b.n), a.d)
    IN  Rat((a.n \div g1) * (b.n \div g2), (a.d \div g2) * (b.d \div g1))

\* a / b for b # 0
RatDiv(a, b) == RatMul(a, Rat(b.d, b.n))

RatLess(a, b) == a.n * b.d < b.n * a.d

RatLeq(a, b) == a.n * b.d <= b.n * a.d

----------------------------------------------------------------------------
(* Score dictionaries *)

soil_scores ==
    ("Sand" :> 40) @@ ("Sandy Loam" :> 30) @@ ("Loam" :> 15) @@
    ("Clay Loam" :> 10) @@ ("Clay" :> 5)

paddock_prep_scores == ("None" :> 10) @@ ("Some Prep" :> 30) @@ ("Full Prep" :> 60)

sowing_method_scores ==
    ("Aerial" :> 50) @@ ("Spreader" :> 50) @@ ("Disk" :> 100) @@ ("Combine" :> 100)

post_planting_scores == ("Rolled" :> 100) @@ ("Harrowed" :> 50) @@ ("None" :> 0)

starter_fert_scores == ("Yes" :> 100) @@ ("No" :> 0)

planting_condition_scores ==
    ("Good Soil Moisture" :> 20) @@ ("Friable Seed Bed" :> 20) @@
    ("No Weeds/Competition" :> 20)

----------------------------------------------------------------------------
(* Functions *)

\* mutant: the interpolation subtracts the scaled score instead of adding it
calculate_field_establishment_SignSlip(score) ==
    RatSub(Rat(5, 100),
           RatMul(RatDiv(Whole(score - 115), Whole(500 - 115)),
                  RatSub(Rat(15, 100), Rat(5, 100))))

\* mutant: the interpolation is clamped to [0.05, 0.15]
calculate_field_establishment_Clamped(score) ==
    LET c == IF score < 115 THEN 115 ELSE IF score > 500 THEN 500 ELSE score
    IN  RatAdd(Rat(5, 100),
               RatMul(RatDiv(Whole(c - 115), Whole(500 - 115)),
                      RatSub(Rat(15, 100), Rat(5, 100))))

\* 0.05 + ((total_score - 115) / (500 - 115)) * (0.15 - 0.05)
calculate_field_establishment(score) ==
    RatAdd(Rat(5, 100),
           RatMul(RatDiv(Whole(score - 115), Whole(500 - 115)),
                  RatSub(Rat(15, 100), Rat(5, 100))))

\* mutant: germination is left out of the pure-live-seed fraction
calculate_pls_PurityOnly(purity, germination) == purity

calculate_pls(purity, germination) == RatMul(purity, germination)

RECURSIVE SumScores(_)
SumScores(conds) ==
    IF conds = {} THEN 0
    ELSE LET c == CHOOSE x \in conds : TRUE
         IN  planting_condition_scores[c] + SumScores(conds \ {c})

\* the total_score expression of the Calculate handler
TotalScoreOf(soil, prep, method, post, fert, conds) ==
    soil_scores[soil] + paddock_prep_scores[prep] + sowing_method_scores[method] +
    post_planting_scores[post] + starter_fert_scores[fert] + SumScores(conds)

----------------------------------------------------------------------------
(* The Calculate handler's locals *)

legume_split == 100 - grass_split

total_grass_plants == RatMul(Whole(total_target_plants_m2), RatDiv(Whole(grass_split), Whole(100)))

total_legume_plants == RatMul(Whole(total_target_plants_m2), RatDiv(Whole(legume_split), Whole(100)))

IsGrass(s) == s["Plant Type"] = "Grass"

IsLegume(s) == s["Plant Type"] = "Legume"

\* mutant: the grass list is built in reverse input order
RECURSIVE Reverse(_)
Reverse(q) == IF q = <<>> THEN <<>> ELSE Append(Reverse(Tail(q)), Head(q))

grass_species_Reversed == Reverse(SelectSeq(species_data, IsGrass))

grass_species == SelectSeq(species_data, IsGrass)

legume_species == SelectSeq(species_data, IsLegume)

ViableSeedsPerKg(s) == RatMul(Whole(s["Seeds/kg"]), calculate_pls(s.Purity, s.Germination))

\* mutant: the type's target is shared over all species, not the type's own
TargetPerSpecies_AllSpecies(typeTotal, group) == RatDiv(typeTotal, Whole(Len(species_data)))

\* target_plants_per_m2_species = total_<type>_plants / len(<type>_species)
TargetPerSpecies(typeTotal, group) == RatDiv(typeTotal, Whole(Len(group)))

\* the two divisions of a loop body raise ZeroDivisionError on a zero divisor
Faults(s) == field_establishment.n = 0 \/ ViableSeedsPerKg(s).n = 0

\* sowing_rate_kg_per_ha of one loop iteration (no zero divisor)
SowingRateKgPerHa(s, typeTotal, group) ==
    LET target_plants_per_m2_species == TargetPerSpecies(typeTotal, group)
        adjusted_target_plants_per_m2 ==
            RatDiv(target_plants_per_m2_species, field_establishment)
        sowing_rate_kg_per_m2 ==
            RatDiv(adjusted_target_plants_per_m2, ViableSeedsPerKg(s))
    IN  RatMul(sowing_rate_kg_per_m2, Whole(10000))

ResultRow(s, typeTotal, group) ==
    [Species |-> s.Species, Type |-> s["Plant Type"],
     Rate |-> SowingRateKgPerHa(s, typeTotal, group)]

\* where the handler stands once `rows` have been appended to results
AfterRows(rows) ==
    IF Len(rows) < Len(grass_species) THEN "grass"
    ELSE IF Len(rows) < Len(grass_species) + Len(legume_species) THEN "legume"
    ELSE "total"

RECURSIVE SumRates(_)
SumRates(rows) == IF rows = <<>> THEN Whole(0) ELSE RatAdd(Head(rows).Rate, SumRates(Tail(rows)))

\* mutant: the sum skips the first row
total_mix_rate_SkipFirst(rows) == IF rows = <<>> THEN Whole(0) ELSE SumRates(Tail(rows))

\* df_results["Sowing Rate (kg/ha)"].sum()
total_mix_rate(rows) == SumRates(rows)

total_row(rows) == [Species |-> "Total Mix", Type |-> "", Rate |-> total_mix_rate(rows)]

----------------------------------------------------------------------------
(* Input domains *)

Conditions == DOMAIN planting_condition_scores

\* (germination, purity, seeds/kg) triples a species row is filled with
SeedLots ==
    { [Germination |-> Rat(7, 10), Purity |-> Rat(1, 1),  Seeds |-> 1],
      [Germination |-> Rat(1, 1),  Purity |-> Rat(1, 2),  Seeds |-> 4],
      [Germination |-> Rat(0, 1),  Purity |-> Rat(9, 10), Seeds |-> 2],
      [Germination |-> Rat(1, 2),  Purity |-> Rat(0, 1),  Seeds |-> 1] }

PlantTypes == {"Grass", "Legume"}

\* the text typed into "Species Name i" (one distinct name per row)
SpeciesNames == <<"Ryegrass", "Clover", "Fescue", "Lucerne", "Cocksfoot", "Medic">>

\* the i-th species row of the form
SpeciesRow(i, t, lot) ==
    ("Plant Type" :> t) @@ ("Species" :> SpeciesNames[i]) @@ ("Germination" :> lot.Germination) @@
    ("Purity" :> lot.Purity) @@ ("Seeds/kg" :> lot.Seeds)

SpeciesLists ==
    UNION { { [i \in 1..k |-> SpeciesRow(i, ts[i], ls[i])] :
                ts \in [1..k -> PlantTypes], ls \in [1..k -> SeedLots] } :
            k \in 1..MaxSpecies }

GrassSplits == {0, 70, 100}

\* selections: the least favourable, the form's defaults, the most favourable
Scenarios ==
    { <<"Clay", "None", "Aerial", "None", "No", {}>>,
      <<"Sand", "None", "Aerial", "Rolled", "Yes", {}>>,
      <<"Sand", "Full Prep", "Disk", "Rolled", "Yes", Conditions>> }

NoValue == Whole(0)

HandlerIdle ==
    /\ pc = "form"
    /\ total_score = 0
    /\ field_establishment = NoValue
    /\ results = <<>>
    /\ df_results = <<>>
    /\ error = ""

----------------------------------------------------------------------------
(* Spec: the sowing-rate calculation over species lists, targets, splits *)

Init ==
    /\ \E sc \in Scenarios :
         /\ soil_type = sc[1]
         /\ paddock_prep = sc[2]
         /\ sowing_method = sc[3]
         /\ post_planting = sc[4]
         /\ starter_fert = sc[5]
         /\ planting_conditions = sc[6]
    /\ total_target_plants_m2 \in 1..MaxTarget
    /\ grass_split \in GrassSplits
    /\ species_data \in SpeciesLists
    /\ HandlerIdle

\* if st.button("Calculate"): total_score, field_establishment, the partition
Calculate ==
    /\ pc = "form"
    /\ total_score' = TotalScoreOf(soil_type, paddock_prep, sowing_method,
                                   post_planting, starter_fert, planting_conditions)
    /\ field_establishment' = calculate_field_establishment(total_score')
    /\ results' = <<>>
    /\ pc' = AfterRows(<<>>)
    /\ UNCHANGED <<form, df_results, error>>

\* one iteration of `for species in grass_species`
GrassStep ==
    /\ pc = "grass"
    /\ LET s == grass_species[Len(results) + 1]
       IN  IF Faults(s)
           THEN /\ pc' = "fault"
                /\ error' = "ZeroDivisionError"
                /\ UNCHANGED results
           ELSE /\ results' = Append(results, ResultRow(s, total_grass_plants, grass_species))
                /\ pc' = AfterRows(results')
                /\ UNCHANGED error
    /\ UNCHANGED <<form, total_score, field_establishment, df_results>>

\* one iteration of `for species in legume_species`
LegumeStep ==
    /\ pc = "legume"
    /\ LET s == legume_species[Len(results) - Len(grass_species) + 1]
       IN  IF Faults(s)
           THEN /\ pc' = "fault"
                /\ error' = "ZeroDivisionError"
                /\ UNCHANGED results
           ELSE /\ results' = Append(results, ResultRow(s, total_legume_plants, legume_species))
                /\ pc' = AfterRows(results')
                /\ UNCHANGED error
    /\ UNCHANGED <<form, total_score, field_establishment, df_results>>

\* df_results with the Total Mix row appended, then displayed
TotalMix ==
    /\ pc = "total"
    /\ df_results' = Append(results, total_row(results))
    /\ pc' = "done"
    /\ UNCHANGED <<form, total_score, field_establishment, results, error>>

Next == Calculate \/ GrassStep \/ LegumeStep \/ TotalMix

Spec == Init /\ [][Next]_vars

----------------------------------------------------------------------------
(* SpecScore: every combination of selections the form can produce *)

InitScore ==
    /\ soil_type \in DOMAIN soil_scores
    /\ paddock_prep \in DOMAIN paddock_prep_scores
    /\ sowing_method \in DOMAIN sowing_method_scores
    /\ post_planting \in DOMAIN post_planting_scores
    /\ starter_fert \in DOMAIN starter_fert_scores
    /\ planting_conditions \in SUBSET Conditions
    /\ total_target_plants_m2 = 10
    /\ grass_split = 70
    /\ species_data =
         << SpeciesRow(1, "Grass", [Germination |-> Rat(7, 10), Purity |-> Rat(9, 10), Seeds |-> 300000]),
            SpeciesRow(2, "Legume", [Germination |-> Rat(7, 10), Purity |-> Rat(9, 10), Seeds |-> 300000]) >>
    /\ HandlerIdle

SpecScore == InitScore /\ [][Next]_vars

----------------------------------------------------------------------------
(* SpecFE: calculate_field_establishment applied to integer scores *)

InitFE ==
    /\ soil_type = "Sand"
    /\ paddock_prep = "None"
    /\ sowing_method = "Aerial"
    /\ post_planting = "Rolled"
    /\ starter_fert = "Yes"
    /\ planting_conditions = {}
    /\ total_target_plants_m2 = 10
    /\ grass_split = 70
    /\ species_data = <<>>
    /\ pc = "fe_call"
    /\ total_score \in (115 - ScoreSpan)..(500 + ScoreSpan)
    /\ field_establishment = NoValue
    /\ results = <<>>
    /\ df_results = <<>>
    /\ error = ""

FieldEstablishmentCall ==
    /\ pc = "fe_call"
    /\ field_establishment' = calculate_field_establishment(total_score)
    /\ pc' = "fe_done"
    /\ UNCHANGED <<form, total_score, results, df_results, error>>

NextFE == FieldEstablishmentCall

SpecFE == InitFE /\ [][NextFE]_vars

----------------------------------------------------------------------------
(* Vocabulary of the properties *)

Started == pc \in {"grass", "legume", "total", "done", "fault"}

Finished == pc \in {"done", "fault"}

\* the input row a result row was computed from
SpeciesNamed(name) ==
    species_data[CHOOSE i \in DOMAIN species_data : species_data[i].Species = name]

PositionOf(name) == CHOOSE i \in DOMAIN species_data : species_data[i].Species = name

CountOfType(t) == Cardinality({i \in DOMAIN species_data : species_data[i]["Plant Type"] = t})

SplitOfType(t) == IF t = "Grass" THEN grass_split ELSE 100 - grass_split

\* seedsPerKg * purity * germination
ViableOf(s) == RatMul(Whole(s["Seeds/kg"]), RatMul(s.Purity, s.Germination))

\* ((total * split / 100) / n) / fieldEstablishment / viable * 10000
ClosedFormRate(s) ==
    LET t == s["Plant Type"]
        typeTarget == RatDiv(Whole(total_target_plants_m2 * SplitOfType(t)), Whole(100))
        share == RatDiv(typeTarget, Whole(CountOfType(t)))
    IN  RatMul(RatDiv(RatDiv(share, field_establishment), ViableOf(s)), Whole(10000))

\* plants per m2 a row's rate is expected to establish
EstablishedBy(row) ==
    RatMul(RatMul(RatDiv(row.Rate, Whole(10000)), ViableOf(SpeciesNamed(row.Species))),
           field_establishment)

RECURSIVE EstablishedOfType(_, _)
EstablishedOfType(rows, t) ==
    IF rows = <<>> THEN Whole(0)
    ELSE LET rest == EstablishedOfType(SubSeq(rows, 1, Len(rows) - 1), t)
             last == rows[Len(rows)]
         IN  IF last.Type = t THEN RatAdd(rest, EstablishedBy(last)) ELSE rest

EstablishedTotal(rows) ==
    RatAdd(EstablishedOfType(rows, "Grass"), EstablishedOfType(rows, "Legume"))

\* a plant type with a positive target density and no species supplied
EmptyTypeWithTarget ==
    \E t \in PlantTypes :
        /\ total_target_plants_m2 > 0
        /\ SplitOfType(t) > 0
        /\ CountOfType(t) = 0

AllSpeciesViable ==
    \A i \in DOMAIN species_data :
        /\ species_data[i]["Seeds/kg"] > 0
        /\ ViableOf(species_data[i]).n > 0

\* the rates of rows 1..k added from the last row backwards
RECURSIVE SumOfFirst(_, _)
SumOfFirst(rows, k) ==
    IF k = 0 THEN Whole(0) ELSE RatAdd(SumOfFirst(rows, k - 1), rows[k].Rate)

----------------------------------------------------------------------------
(* Properties *)

\* C1: every emitted species row carries the rate
\* ((total * split / 100) / n) / fieldEstablishment / (seedsPerKg * purity *
\* germination) * 10000, with n the number of species of the row's type and
\* split the grass split or its complement; rows of one type stand for the
\* same per-species target density; a row is emitted only where the formula's
\* divisors are non-zero; a finished table has a row per species.
C1_SowingRateFormula ==
    /\ \A k \in DOMAIN results :
         LET r == results[k]
             s == SpeciesNamed(r.Species)
         IN  /\ r.Type = s["Plant Type"]
             /\ field_establishment.n # 0
             /\ ViableOf(s).n # 0
             /\ r.Rate = ClosedFormRate(s)
             /\ \A j \in DOMAIN results :
                    results[j].Type = r.Type => EstablishedBy(results[j]) = EstablishedBy(r)
    /\ pc = "done" =>
         \A i \in DOMAIN species_data :
             \E k \in DOMAIN results : results[k].Species = species_data[i].Species

C1_Witness ==
    /\ pc = "done"
    /\ Len(results) = 3
    /\ results[1].Type = "Grass"
    /\ results[2].Type = "Grass"
    /\ results[3].Type = "Legume"
    /\ results[1].Rate # results[2].Rate
    /\ 0 < grass_split /\ grass_split < 100

\* C2: a plant type with a positive target density and no species makes the
\* calculation end in an EmptyTypeGroup error without a result table.
C2_EmptyTypeGroupRaised ==
    (Finished /\ EmptyTypeWithTarget /\ AllSpeciesViable) =>
        (pc = "fault" /\ error = "EmptyTypeGroup" /\ df_results = <<>>)

\* C3: a species with zero viable seeds per kg (or non-positive seeds per kg)
\* makes the calculation end in an InvalidSpeciesAttribute error, raised before
\* any result row is produced.
C3_InvalidSpeciesAttributeRaised ==
    (Finished /\ ~AllSpeciesViable) =>
        (pc = "fault" /\ error = "InvalidSpeciesAttribute" /\ results = <<>>)

\* C4: the total score of every combination of selections lies in [115, 500].
C4_ScoreWithin115And500 ==
    Started => (115 <= total_score /\ total_score <= 500)

\* C5: the field establishment the sowing-rate loops divide by is strictly
\* positive for every combination of selections.
C5_FieldEstablishmentPositive ==
    Started => RatLess(Whole(0), field_establishment)

C5_Witness ==
    /\ pc = "grass"
    /\ soil_type = "Clay" /\ paddock_prep = "None" /\ sowing_method = "Aerial"
    /\ post_planting = "None" /\ starter_fert = "No" /\ planting_conditions = {}
    /\ RatLess(Whole(0), field_establishment)

\* C6: calculate_field_establishment(s) = 0.05 + ((s - 115) / 385) * 0.10 for
\* every integer s, unclamped: 0.05 at 115, 0.15 at 500, below 0.05 under 115,
\* above 0.15 over 500, and one more point of score adds the same 1/3850.
C6_LinearUnclamped ==
    pc = "fe_done" =>
        /\ field_establishment.n * 38500 =
               (5 * 385 + 10 * (total_score - 115)) * field_establishment.d
        /\ total_score = 115 => field_establishment = Rat(5, 100)
        /\ total_score = 500 => field_establishment = Rat(15, 100)
        /\ total_score < 115 => RatLess(field_establishment, Rat(5, 100))
        /\ total_score > 500 => RatLess(Rat(15, 100), field_establishment)
        /\ RatSub(calculate_field_establishment(total_score + 1), field_establishment)
               = Rat(1, 3850)

C6_Witness ==
    /\ pc = "fe_done"
    /\ total_score > 500
    /\ RatLess(Rat(15, 100), field_establishment)

\* C7: the result table is one row per supplied species followed by exactly
\* one "Total Mix" row with an empty type whose rate is the sum of the rates
\* of the rows before it; no table exists before the handler finishes.
C7_TotalMixRow ==
    /\ pc # "done" => df_results = <<>>
    /\ pc = "done" =>
         LET n == Len(df_results)
         IN  /\ n = Len(species_data) + 1
             /\ df_results[n].Species = "Total Mix"
             /\ df_results[n].Type = ""
             /\ df_results[n].Rate = SumOfFirst(df_results, n - 1)
             /\ \A k \in 1..(n - 1) :
                    /\ df_results[k].Species # "Total Mix"
                    /\ df_results[k].Type \in PlantTypes
             /\ \A i \in DOMAIN species_data :
                    Cardinality({k \in 1..(n - 1) :
                                   df_results[k].Species = species_data[i].Species}) = 1

C7_Witness ==
    /\ pc = "done"
    /\ Len(df_results) = 4
    /\ df_results[4].Species = "Total Mix"
    /\ RatLess(df_results[1].Rate, df_results[4].Rate)

\* C8: Grass rows come before Legume rows, rows of one type keep the order of
\* the input list, and the table shows the rows in that order.
C8_GrassBeforeLegumeInInputOrder ==
    /\ \A i, j \in DOMAIN results :
         i < j =>
           /\ ~(results[i].Type = "Legume" /\ results[j].Type = "Grass")
           /\ results[i].Type = results[j].Type =>
                  PositionOf(results[i].Species) < PositionOf(results[j].Species)
    /\ pc = "done" => SubSeq(df_results, 1, Len(df_results) - 1) = results

C8_Witness ==
    /\ pc = "done"
    /\ Len(species_data) = 3
    /\ species_data[1]["Plant Type"] = "Legume"
    /\ species_data[2]["Plant Type"] = "Grass"
    /\ species_data[3]["Plant Type"] = "Legume"
    /\ results[1].Species = species_data[2].Species
    /\ results[2].Species = species_data[1].Species
    /\ results[3].Species = species_data[3].Species

\* C9: the calculated field establishment of every combination of selections
\* lies between 0.06 and 0.15, the range of the gauge and of the help text.
C9_FieldEstablishmentWithinGauge ==
    Started =>
        /\ RatLeq(Rat(6, 100), field_establishment)
        /\ RatLeq(field_establishment, Rat(15, 100))

\* C10: in a finished table the plants the rows are expected to establish add
\* up, per plant type with at least one species, to that type's target
\* density; the whole table adds up to the total target exactly when every
\* type with a positive split has a species, and to strictly less otherwise.
C10_TargetConserved ==
    pc = "done" =>
        /\ \A t \in PlantTypes :
               CountOfType(t) >= 1 =>
                   EstablishedOfType(results, t) =
                       RatDiv(Whole(total_target_plants_m2 * SplitOfType(t)), Whole(100))
        /\ (EstablishedTotal(results) = Whole(total_target_plants_m2)) <=> ~EmptyTypeWithTarget
        /\ EmptyTypeWithTarget =>
               RatLess(EstablishedTotal(results), Whole(total_target_plants_m2))

C10_Witness ==
    /\ pc = "done"
    /\ grass_split = 70
    /\ CountOfType("Grass") = 2
    /\ CountOfType("Legume") = 1
    /\ EstablishedTotal(results) = Whole(total_target_plants_m2)

====
